---- MODULE Spec2Model ----
(***************************************************************************)
(* A model of the BudgetML client (src/budgetml/main.py) and of the GCP    *)
(* helpers it drives (src/budgetml/gcp/function.py, pubsub.py, storage.py).*)
(*                                                                         *)
(* The client is single-threaded: one operation runs at a time and every   *)
(* remote call blocks.  An operation is modelled as a sequence of steps,   *)
(* one per external call, so that the order of the calls and the point at  *)
(* which an error propagates are visible.  The cloud provider and the      *)
(* docker engine are the environment: each call to them either succeeds or *)
(* raises, chosen nondeterministically.                                    *)
(*                                                                         *)
(* Text is modelled with TLA+ strings; Python's None with the empty tuple  *)
(* and a present value v with <<v>>.                                       *)
(*                                                                         *)
(* uuid4() is modelled as a source of pairwise distinct values: the n-th   *)
(* value drawn in the life of the process is Uuid(n) (collisions between   *)
(* 122-bit random values are not modelled).                                *)
(***************************************************************************)
EXTENDS Integers, Sequences, FiniteSets, TLC

VARIABLES
    drawn,      \* number of uuid4() values drawn so far in this process
    clients,    \* client id -> the fields of that BudgetML object
    cloud,      \* the provider's resources, by kind
    local,      \* the local machine: scratch directory, docker image, container
    pc,         \* position of the running operation ("idle" between operations)
    frame,      \* arguments and local variables of the running (or last) operation
    calls,      \* the external calls the running (or last) operation issued, in order
    result,     \* how the last operation ended: returned (with its value) or raised
    ops         \* number of operations started

vars == <<drawn, clients, cloud, local, pc, frame, calls, result, ops>>

(***************************************************************************)
(* Bounds and inputs.                                                      *)
(***************************************************************************)
MaxOps == 2

Clients == {"c1", "c2"}

None == <<>>
Some(v) == <<v>>

LaunchStaticIpArgs == {None, Some("10.0.0.2")}
BucketNameArgs == {None, Some("my_bucket")}
\* launch is called with both names or with neither
NameArgs == {[bucket_name |-> None, instance_name |-> None],
             [bucket_name |-> Some("my_bucket"),
              instance_name |-> Some("my-inst")]}
PasswordArgs == {None, Some("s3cret")}

\* The requirements argument: None, a list of requirement lines, or the path
\* of a requirements file.
NoRequirements == [kind |-> "none", items |-> <<>>, path |-> ""]
RequirementsList(items) == [kind |-> "list", items |-> items, path |-> ""]
RequirementsPath(path) == [kind |-> "path", items |-> <<>>, path |-> path]
RequirementsArgs == {NoRequirements,
                     RequirementsList(<<"numpy==1.19.0", "fastapi">>),
                     RequirementsPath("requirements.txt")}

\* Constructor arguments per client: c1 is given a static IP or a unique_id,
\* c2 is constructed with all defaults.
CtorArgs(c) ==
    IF c = "c1" THEN {[unique_id |-> None, static_ip |-> Some("10.0.0.1")],
                      [unique_id |-> Some("my_id_1"), static_ip |-> None]}
    ELSE {[unique_id |-> None, static_ip |-> None]}

\* Arguments of launch and launch_local per client: c1 is called every way,
\* c2 with all defaults.
LaunchArgs(c) ==
    IF c = "c1"
    THEN [static_ip : LaunchStaticIpArgs, names : NameArgs,
          password : PasswordArgs, requirements : {NoRequirements}]
         \cup [static_ip : {None},
               names : {[bucket_name |-> None, instance_name |-> None]},
               password : {None}, requirements : RequirementsArgs]
    ELSE {[static_ip |-> None,
           names |-> [bucket_name |-> None, instance_name |-> None],
           password |-> None, requirements |-> NoRequirements]}

LocalArgs(c) ==
    IF c = "c1"
    THEN [bucket_name : BucketNameArgs, password : PasswordArgs,
          requirements : {NoRequirements}]
         \cup [bucket_name : {None}, password : {None},
               requirements : RequirementsArgs]
    ELSE {[bucket_name |-> None, password |-> None,
           requirements |-> NoRequirements]}

Domain == "lol.com"
PredictorEntrypoint == "Predictor"

(***************************************************************************)
(* Text helpers.                                                           *)
(***************************************************************************)
RECURSIVE Replace(_, _, _)
Replace(str, old, new) ==
    IF Len(str) = 0 THEN ""
    ELSE (IF Head(str) = old THEN new ELSE Head(str))
             \o Replace(Tail(str), old, new)

\* Python's str.replace(old, new) for a non-empty old: leftmost occurrences,
\* not overlapping, left to right.
RECURSIVE ReplaceAll(_, _, _)
ReplaceAll(str, old, new) ==
    IF Len(str) < Len(old) THEN str
    ELSE IF SubSeq(str, 1, Len(old)) = old
         THEN new \o ReplaceAll(SubSeq(str, Len(old) + 1, Len(str)), old, new)
         ELSE Head(str) \o ReplaceAll(Tail(str), old, new)

\* Variant: every item is followed by the separator.
RECURSIVE JoinTrailing(_, _)
JoinTrailing(items, sep) ==
    IF Len(items) = 0 THEN ""
    ELSE items[1] \o sep \o JoinTrailing(Tail(items), sep)

\* Python's sep.join(items)
RECURSIVE Join(_, _)
Join(items, sep) ==
    IF Len(items) = 0 THEN ""
    ELSE IF Len(items) = 1 THEN items[1]
         ELSE items[1] \o sep \o Join(Tail(items), sep)

\* open(path, 'r').read() of a file whose stored characters are raw: text
\* mode translates the line endings '\r\n' and '\r' to '\n'.
TextModeRead(raw) == ReplaceAll(ReplaceAll(raw, "\r\n", "\n"), "\r", "\n")

\* str.encode(): the UTF-8 bytes of a text.  The texts here are ASCII: the
\* characters from the space to the underscore are bytes 32..95, those from
\* 'a' to the tilde bytes 97..126, the newline is byte 10 and the carriage
\* return byte 13.
AsciiFromSpace == " !\"#$%&'()*+,-./0123456789:;<=>?@ABCDEFGHIJKLMNOPQRSTUVWXYZ[\\]^_"
AsciiFromLowerA == "abcdefghijklmnopqrstuvwxyz{|}~"

ByteOf(ch) ==
    IF ch = "\n" THEN 10
    ELSE IF ch = "\r" THEN 13
    ELSE IF \E i \in 1..Len(AsciiFromSpace) : SubSeq(AsciiFromSpace, i, i) = ch
         THEN 31 + (CHOOSE i \in 1..Len(AsciiFromSpace) :
                        SubSeq(AsciiFromSpace, i, i) = ch)
         ELSE 96 + (CHOOSE i \in 1..Len(AsciiFromLowerA) :
                        SubSeq(AsciiFromLowerA, i, i) = ch)

RECURSIVE Encode(_)
Encode(str) ==
    IF Len(str) = 0 THEN <<>> ELSE <<ByteOf(Head(str))>> \o Encode(Tail(str))

\* base64.b64encode(bytes).decode(): three bytes become four characters of
\* the standard alphabet; a last group of one or two bytes is padded with '='.
Base64Alphabet ==
    "ABCDEFGHIJKLMNOPQRSTUVWXYZabcdefghijklmnopqrstuvwxyz0123456789+/"

Base64Char(n) == SubSeq(Base64Alphabet, n + 1, n + 1)

RECURSIVE b64encode(_)
b64encode(bytes) ==
    IF Len(bytes) = 0 THEN ""
    ELSE IF Len(bytes) = 1
         THEN Base64Char(bytes[1] \div 4) \o Base64Char((bytes[1] % 4) * 16)
                  \o "=="
    ELSE IF Len(bytes) = 2
         THEN Base64Char(bytes[1] \div 4)
                  \o Base64Char((bytes[1] % 4) * 16 + bytes[2] \div 16)
                  \o Base64Char((bytes[2] % 16) * 4) \o "="
    ELSE Base64Char(bytes[1] \div 4)
             \o Base64Char((bytes[1] % 4) * 16 + bytes[2] \div 16)
             \o Base64Char((bytes[2] % 16) * 4 + bytes[3] \div 64)
             \o Base64Char(bytes[3] % 64)
             \o b64encode(SubSeq(bytes, 4, Len(bytes)))

\* base64.b64encode(text.encode()).decode()
Base64Text(text) == b64encode(Encode(text))

Contains(str, sub) ==
    \E i \in 1..(Len(str) - Len(sub) + 1) :
        SubSeq(str, i, i + Len(sub) - 1) = sub

Uuid(n) == "uuid4-" \o ToString(n)

(***************************************************************************)
(* Default arguments.  Python evaluates a default argument once, when the  *)
(* def statement runs at import: each str(uuid4()) default below is one    *)
(* value, drawn before any client exists.                                  *)
(***************************************************************************)
DefaultUniqueId == Uuid(0)
DefaultLaunchPassword == Uuid(1)
DefaultLaunchLocalPassword == Uuid(2)

BUDGETML_BASE_IMAGE_NAME == "budgetml_base:latest"

(***************************************************************************)
(* Name derivation.                                                        *)
(***************************************************************************)
DefaultBucketName(unique_id) == "budget_bucket_" \o unique_id

\* Variant: the underscores of unique_id are kept.
DefaultInstanceNameKeepsUnderscores(unique_id) ==
    "budget-instance-" \o unique_id

DefaultInstanceName(unique_id) ==
    "budget-instance-" \o Replace(unique_id, "_", "-")

StaticIpName(instance_name) == "ip-" \o instance_name

TopicName(instance_name) == "topic-" \o instance_name

FunctionName(instance_name) == "function-" \o instance_name

PredictorGcsPath(unique_id, entrypoint) ==
    "predictors/" \o unique_id \o "/" \o entrypoint \o ".py"

TopicPath(project, topic) == "projects/" \o project \o "/topics/" \o topic

Project == "proj"
Region == "us-central1"
Zone == "us-central1-a"
Parent == "projects/" \o Project \o "/locations/" \o Region

(***************************************************************************)
(* Script builders.                                                        *)
(***************************************************************************)
ContextDir == "/home/budgetml"
TemplateDockerfileLocation == ContextDir \o "/template.Dockerfile"
RequirementsLocation == ContextDir \o "/custom_requirements.txt"
TemplateDockercomposeLocation == ContextDir \o "/docker-compose.yaml"
NginxConfLocation == ContextDir \o "/nginx.conf"
CertsPath == ContextDir \o "/certs/"

MetadataUrl == "http://metadata.google.internal/computeMetadata/v1"

\* The text create_start_up returns (its upload of the predictor is part of
\* the step LaunchStartUp); token is the str(uuid4()) it draws.
create_start_up(unique_id, entrypoint, bucket, domain, subdomain, username, password, token) ==
    LET predictor_gcs_path == PredictorGcsPath(unique_id, entrypoint)
    IN  "#!/bin/bash" \o "\n"
     \o "sudo -s" \o "\n"
     \o "mkdir " \o ContextDir \o "\n"
     \o "cd " \o ContextDir \o "\n"
     \o "export DOCKER_TEMPLATE=$(curl " \o MetadataUrl
        \o "/instance/attributes/DOCKER_TEMPLATE -H \"Metadata-Flavor: "
        \o "Google\")" \o "\n"
     \o "export REQUIREMENTS=$(curl " \o MetadataUrl
        \o "/instance/attributes/REQUIREMENTS -H \"Metadata-Flavor: "
        \o "Google\")" \o "\n"
     \o "export DOCKER_COMPOSE_TEMPLATE=$(curl " \o MetadataUrl
        \o "/instance/attributes/DOCKER_COMPOSE_TEMPLATE -H "
        \o "\"Metadata-Flavor: " \o "Google\")" \o "\n"
     \o "export NGINX_CONF_TEMPLATE=$(curl " \o MetadataUrl
        \o "/instance/attributes/NGINX_CONF_TEMPLATE -H "
        \o "\"Metadata-Flavor: " \o "Google\")" \o "\n"
     \o "rm " \o TemplateDockerfileLocation \o "\n"
     \o "rm " \o RequirementsLocation \o "\n"
     \o "rm " \o TemplateDockercomposeLocation \o "\n"
     \o "rm " \o NginxConfLocation \o "\n"
     \o "echo $DOCKER_TEMPLATE | base64 --decode >> "
        \o TemplateDockerfileLocation \o "\n"
     \o "echo $REQUIREMENTS | base64 --" \o "decode >> "
        \o RequirementsLocation \o "\n"
     \o "echo $DOCKER_COMPOSE_TEMPLATE | base64 --decode >> "
        \o TemplateDockercomposeLocation \o "\n"
     \o "echo $NGINX_CONF_TEMPLATE | base64 --" \o "decode >> "
        \o NginxConfLocation \o "\n"
     \o "export BUDGET_PREDICTOR_PATH=gs://" \o bucket \o "/"
        \o predictor_gcs_path \o "\n"
     \o "export BUDGET_PREDICTOR_ENTRYPOINT=" \o entrypoint \o "\n"
     \o "export BUDGET_DOMAIN=" \o domain \o "\n"
     \o "export BUDGET_USERNAME=" \o username \o "\n"
     \o "export BUDGET_PWD=" \o password \o "\n"
     \o "export BUDGET_SUBDOMAIN=" \o subdomain \o "\n"
     \o "export BUDGET_NGINX_PATH=" \o NginxConfLocation \o "\n"
     \o "export BUDGET_CERTS_PATH=" \o CertsPath \o "\n"
     \o "export BASE_IMAGE=" \o BUDGETML_BASE_IMAGE_NAME \o "\n"
     \o "export BUDGET_TOKEN=" \o token \o "\n"
     \o "if [ -x \"$(command -v docker)\" ]; then" \o "\n"
     \o "    echo \"Docker already installed\"" \o "\n"
     \o "else" \o "\n"
     \o "    sudo apt-get update" \o "\n"
     \o "    sudo apt-get -y install apt-transport-https "
        \o "ca-certificates curl gnupg-agent "
        \o "software-properties-common" \o "\n"
     \o "    curl -fsSL "
        \o "https://download.docker.com/linux/ubuntu/gpg | sudo "
        \o "apt-key add -" \o "\n"
     \o "    sudo add-apt-repository \"deb [arch=amd64] "
        \o "https://download.docker.com/linux/ubuntu $(lsb_release "
        \o "-cs) stable\"" \o "\n"
     \o "    sudo apt-get update" \o "\n"
     \o "    sudo apt-get -y install docker-ce docker-ce-cli "
        \o "containerd.io" \o "\n"
     \o "fi" \o "\n"
     \o "docker run -e BUDGET_PREDICTOR_PATH=$BUDGET_PREDICTOR_PATH -e BUDGET_PREDICTOR_ENTRYPOINT=$BUDGET_PREDICTOR_ENTRYPOINT -e BUDGET_USERNAME=$BUDGET_USERNAME -e BUDGET_PWD=$BUDGET_PWD -e BUDGET_DOMAIN=$BUDGET_DOMAIN -e BUDGET_SUBDOMAIN=$BUDGET_SUBDOMAIN -e BUDGET_NGINX_PATH=$BUDGET_NGINX_PATH -e BUDGET_CERTS_PATH=$BUDGET_CERTS_PATH -e BASE_IMAGE=$BASE_IMAGE -e BUDGET_TOKEN=$BUDGET_TOKEN --rm -v /var/run/docker.sock:/var/run/docker.sock -v \"$PWD:$PWD\" -w=\"$PWD\" docker/compose:1.24.0 up -d"
        \o "\n"
     \o "docker pull google/cloud-sdk:324.0.0" \o "\n"

\* Variant: the shutdown script publishes without naming the topic.
create_shut_down_without_topic(topic) ==
       "#!/bin/bash" \o "\n"
    \o "sudo -s" \o "\n"
    \o "cd /tmp" \o "\n"
    \o "echo \"+++ Running shutdown script +++\"" \o "\n"
    \o "docker run -it google/cloud-sdk:324.0.0 gcloud "
    \o "pubsub topics publish "
    \o "--message \"{}\""

create_shut_down(topic) ==
       "#!/bin/bash" \o "\n"
    \o "sudo -s" \o "\n"
    \o "cd /tmp" \o "\n"
    \o "echo \"+++ Running shutdown script +++\"" \o "\n"
    \o "docker run -it google/cloud-sdk:324.0.0 gcloud "
    \o "pubsub topics publish " \o topic \o " "
    \o "--message \"{}\""

(***************************************************************************)
(* File renderers.  The files are the environment: raw is what the file    *)
(* that is read holds.                                                     *)
(***************************************************************************)
TemplateDockerfile == "FROM $BASE_IMAGE\nCOPY custom_requirements.txt .\n"
TemplateCompose == "services:\n  app:\n    image: $BASE_IMAGE\n"
TemplateNginxConf == "server_name $BUDGET_DOMAIN;\n"

\* what a requirements file on disk may hold
RequirementsFiles == {"numpy==1.19.0\nfastapi\n", "numpy==1.19.0\r\nfastapi"}

get_docker_file_contents(raw) ==
    ReplaceAll(TextModeRead(raw), "$BASE_IMAGE", BUDGETML_BASE_IMAGE_NAME)

get_requirements_file_contents(requirements_path, raw) ==
    IF requirements_path = None THEN "" ELSE TextModeRead(raw)

get_docker_compose_contents(raw) == TextModeRead(raw)

\* launch and launch_local: a list is joined with newlines, anything else is
\* handed to get_requirements_file_contents as a path (or None).
RequirementsContent(requirements, raw) ==
    IF requirements.kind = "list"
    THEN Join(requirements.items, "\n")
    ELSE get_requirements_file_contents(
             IF requirements.kind = "none" THEN None
             ELSE Some(requirements.path), raw)

\* pathlib.Path(path).write_text(text): the file is created or overwritten
WriteText(files, path, text) ==
    {f \in files : f.path # path} \cup {[path |-> path, text |-> text]}

get_nginx_conf_contents(domain, subdomain, raw) ==
    ReplaceAll(TextModeRead(raw), "$BUDGET_DOMAIN", subdomain \o "." \o domain)

(***************************************************************************)
(* State.                                                                  *)
(***************************************************************************)
NoFrame == [op |-> "none"]
NoResult == [status |-> "none"]

EmptyCloud ==
    [ips |-> {}, ip_seq |-> 0, buckets |-> {}, topics |-> {},
     functions |-> {}, jobs |-> {}, blobs |-> {}, instances |-> {}]

EmptyLocal == [tmp_dir |-> FALSE, files |-> {}, images |-> {}, containers |-> {}]

Call(op, args, res) == [op |-> op, args |-> args, res |-> res]

Returned(value) == [status |-> "returned", value |-> value]
Raised(at) == [status |-> "raised", at |-> at]

(***************************************************************************)
(* BudgetML.__init__                                                       *)
(***************************************************************************)
BudgetML_init(unique_id, static_ip) ==
    [unique_id |-> IF unique_id = None THEN DefaultUniqueId ELSE unique_id[1],
     static_ip |-> static_ip,
     \* what the caller passed, kept for the properties
     unique_id_arg |-> unique_id,
     static_ip_arg |-> static_ip]

\* The import of budgetml.main has run (the three default arguments are
\* drawn) and the clients are constructed.
Init ==
    /\ drawn = 3
    /\ \E args \in {f \in [Clients -> UNION {CtorArgs(c) : c \in Clients}] :
                          \A c \in Clients : f[c] \in CtorArgs(c)} :
           clients = [c \in Clients |->
                         BudgetML_init(args[c].unique_id, args[c].static_ip)]
    /\ cloud = EmptyCloud
    /\ local = EmptyLocal
    /\ pc = "idle"
    /\ frame = NoFrame
    /\ calls = <<>>
    /\ result = NoResult
    /\ ops = 0

\* Variant: an exception triggers a rollback that releases what the
\* operation allocated.
PropagateWithRollback(at, log) ==
    /\ pc' = "idle"
    /\ result' = Raised(at)
    /\ calls' = log
    /\ cloud' = [EmptyCloud EXCEPT !.ip_seq = cloud.ip_seq]
    /\ UNCHANGED <<drawn, clients, local, frame, ops>>

\* An exception leaves the running operation: launch and launch_local have no
\* except or finally clause around their calls, so nothing is undone.
Propagate(at, log) ==
    /\ pc' = "idle"
    /\ result' = Raised(at)
    /\ calls' = log
    /\ cloud' = cloud
    /\ UNCHANGED <<drawn, clients, local, frame, ops>>

(***************************************************************************)
(* Static IPs: BudgetML.create_static_ip, BudgetML.release_static_ip       *)
(***************************************************************************)
NewAddress(cl) == "34.0.0." \o ToString(cl.ip_seq + 1)

\* budgetml.gcp.addresses.create_static_ip succeeded
CloudWithIp(cl, static_ip_name) ==
    [cl EXCEPT !.ips = @ \cup {[name |-> static_ip_name,
                                address |-> NewAddress(cl)]},
               !.ip_seq = @ + 1]

\* create_static_ip called by the user
CreateStaticIpOp(c, static_ip_name) ==
    /\ pc = "idle"
    /\ ops < MaxOps
    /\ ops' = ops + 1
    /\ frame' = [op |-> "create_static_ip", client |-> c]
    /\ pc' = "idle"
    /\ UNCHANGED <<drawn, local>>
    /\ \/ /\ cloud' = CloudWithIp(cloud, static_ip_name)
          /\ clients' = [clients EXCEPT ![c].static_ip = Some(NewAddress(cloud))]
          /\ calls' = <<Call("create_static_ip", static_ip_name, "ok")>>
          /\ result' = Returned(NewAddress(cloud))
       \/ /\ calls' = <<Call("create_static_ip", static_ip_name, "raised")>>
          /\ result' = Raised("create_static_ip")
          /\ UNCHANGED <<cloud, clients>>

\* what budgetml.gcp.addresses.release_static_ip may hand back: nothing, or
\* the control plane's answer
ReleaseResponses == {None, Some("DONE")}

\* release_static_ip called by the user: the helper's value is returned as is
ReleaseStaticIpOp(c, static_ip, response) ==
    /\ pc = "idle"
    /\ ops < MaxOps
    /\ ops' = ops + 1
    /\ frame' = [op |-> "release_static_ip", client |-> c]
    /\ pc' = "idle"
    /\ UNCHANGED <<drawn, local, clients>>
    /\ \/ /\ cloud' = [cloud EXCEPT !.ips = {a \in @ : a.address # static_ip}]
          /\ calls' = <<Call("release_static_ip", static_ip, "ok")>>
          /\ result' = Returned(response)
       \/ /\ calls' = <<Call("release_static_ip", static_ip, "raised")>>
          /\ result' = Raised("release_static_ip")
          /\ UNCHANGED cloud

(***************************************************************************)
(* The script and file builders called by the user.                        *)
(***************************************************************************)
StandaloneBucket == "my_bucket"
StandalonePassword == "s3cret"
StandaloneTopic == "topic-manual"
StandaloneInstance == "my-inst"
RequirementsPathArgs == {None, Some("requirements.txt")}

\* Variant: building the startup script also makes sure the bucket exists.
CreateStartUpOpCreatesBucket(c, bucket) ==
    /\ pc = "idle"
    /\ ops < MaxOps
    /\ ops' = ops + 1
    /\ frame' = [op |-> "create_start_up", client |-> c]
    /\ pc' = "idle"
    /\ UNCHANGED <<clients, local>>
    /\ LET unique_id == clients[c].unique_id
           blob == [bucket |-> bucket,
                    path |-> PredictorGcsPath(unique_id, PredictorEntrypoint)]
       IN  \/ /\ cloud' = [cloud EXCEPT !.blobs = @ \cup {blob},
                                        !.buckets = @ \cup {bucket}]
              /\ calls' = <<Call("upload_blob", blob, "ok")>>
              /\ drawn' = drawn + 1
              /\ result' = Returned(create_start_up(unique_id,
                     PredictorEntrypoint, bucket, Domain, "budget", "budget",
                     StandalonePassword, Uuid(drawn)))
           \/ /\ calls' = <<Call("upload_blob", blob, "raised")>>
              /\ result' = Raised("upload_blob")
              /\ UNCHANGED <<cloud, drawn>>

\* create_start_up called by the user: upload_blob puts the predictor in
\* the bucket, then the script text is built around a fresh token.
CreateStartUpOp(c, bucket) ==
    /\ pc = "idle"
    /\ ops < MaxOps
    /\ ops' = ops + 1
    /\ frame' = [op |-> "create_start_up", client |-> c]
    /\ pc' = "idle"
    /\ UNCHANGED <<clients, local>>
    /\ LET unique_id == clients[c].unique_id
           blob == [bucket |-> bucket,
                    path |-> PredictorGcsPath(unique_id, PredictorEntrypoint)]
       IN  \/ /\ cloud' = [cloud EXCEPT !.blobs = @ \cup {blob}]
              /\ calls' = <<Call("upload_blob", blob, "ok")>>
              /\ drawn' = drawn + 1
              /\ result' = Returned(create_start_up(unique_id,
                     PredictorEntrypoint, bucket, Domain, "budget", "budget",
                     StandalonePassword, Uuid(drawn)))
           \/ /\ calls' = <<Call("upload_blob", blob, "raised")>>
              /\ result' = Raised("upload_blob")
              /\ UNCHANGED <<cloud, drawn>>

\* a builder that only computes text: no call is made, nothing is stored
BuilderReturns(c, op, text) ==
    /\ pc = "idle"
    /\ ops < MaxOps
    /\ ops' = ops + 1
    /\ frame' = [op |-> op, client |-> c]
    /\ pc' = "idle"
    /\ calls' = <<>>
    /\ result' = Returned(text)
    /\ UNCHANGED <<drawn, clients, cloud, local>>

\* create_shut_down called by the user
CreateShutDownOp(c, topic) ==
    BuilderReturns(c, "create_shut_down", create_shut_down(topic))

\* get_docker_file_contents called by the user
GetDockerFileContentsOp(c) ==
    BuilderReturns(c, "get_docker_file_contents",
                   get_docker_file_contents(TemplateDockerfile))

\* get_requirements_file_contents called by the user
GetRequirementsFileContentsOp(c, requirements_path, raw) ==
    BuilderReturns(c, "get_requirements_file_contents",
                   get_requirements_file_contents(requirements_path, raw))

\* get_docker_compose_contents called by the user
GetDockerComposeContentsOp(c) ==
    BuilderReturns(c, "get_docker_compose_contents",
                   get_docker_compose_contents(TemplateCompose))

\* get_nginx_conf_contents called by the user
GetNginxConfContentsOp(c) ==
    BuilderReturns(c, "get_nginx_conf_contents",
                   get_nginx_conf_contents(Domain, "budget", TemplateNginxConf))

(***************************************************************************)
(* storage.create_bucket_if_not_exists                                     *)
(***************************************************************************)
\* Variant: the Conflict answer is not caught.
create_bucket_conflict_raises(bucket_name, next_pc) ==
    \/ /\ bucket_name \notin cloud.buckets
       /\ cloud' = [cloud EXCEPT !.buckets = @ \cup {bucket_name}]
       /\ calls' = Append(calls, Call("create_bucket", bucket_name, "created"))
       /\ frame' = [frame EXCEPT !.bucket_handle = Some(bucket_name)]
       /\ pc' = next_pc
       /\ UNCHANGED <<drawn, clients, local, result, ops>>
    \/ /\ bucket_name \in cloud.buckets
       /\ Propagate("create_bucket",
              Append(calls, Call("create_bucket", bucket_name, "conflict")))
    \/ Propagate("create_bucket",
                 Append(calls, Call("create_bucket", bucket_name, "raised")))

\* The step of the running operation that ensures its bucket; on success the
\* operation goes on at next_pc with the handle the function returned.
create_bucket_if_not_exists(bucket_name, next_pc) ==
    \/ \* storage_client.create_bucket created the bucket
       /\ bucket_name \notin cloud.buckets
       /\ cloud' = [cloud EXCEPT !.buckets = @ \cup {bucket_name}]
       /\ calls' = Append(calls, Call("create_bucket", bucket_name, "created"))
       /\ frame' = [frame EXCEPT !.bucket_handle = Some(bucket_name)]
       /\ pc' = next_pc
       /\ UNCHANGED <<drawn, clients, local, result, ops>>
    \/ \* Conflict: the bucket exists; caught, the local handle is returned
       /\ bucket_name \in cloud.buckets
       /\ calls' = Append(calls, Call("create_bucket", bucket_name, "conflict"))
       /\ frame' = [frame EXCEPT !.bucket_handle = Some(bucket_name)]
       /\ pc' = next_pc
       /\ UNCHANGED <<drawn, clients, cloud, local, result, ops>>
    \/ \* any other error is not caught
       Propagate("create_bucket",
                 Append(calls, Call("create_bucket", bucket_name, "raised")))

(***************************************************************************)
(* BudgetML.launch                                                         *)
(***************************************************************************)
Schedule == "*/5 * * * *"
\* the control plane's answer to functions().delete(...).execute()
DeleteResponse == "operation-delete"
UploadUrl(parent) == "https://storage.googleapis.com/upload/" \o parent

\* launch is entered: arguments bound (an omitted password is the default
\* drawn at import), names resolved.
LaunchBegin(c, static_ip, bucket_name, instance_name, password, requirements) ==
    /\ pc = "idle"
    /\ ops < MaxOps
    /\ ops' = ops + 1
    /\ LET unique_id == clients[c].unique_id
           bucket == IF bucket_name = None THEN DefaultBucketName(unique_id)
                     ELSE bucket_name[1]
           instance == IF instance_name = None
                       THEN DefaultInstanceName(unique_id)
                       ELSE instance_name[1]
       IN  frame' = [op |-> "launch", client |-> c,
                     static_ip |-> static_ip,
                     bucket_arg |-> bucket_name,
                     instance_arg |-> instance_name,
                     password_arg |-> password,
                     requirements |-> requirements,
                     requirements_raw |-> None,
                     requirements_rendered |-> None,
                     requirements_content |-> None,
                     docker_template_content |-> None,
                     docker_compose_content |-> None,
                     nginx_conf_content |-> None,
                     makedirs |-> None,
                     start_drawn |-> drawn,
                     username |-> "budget",
                     subdomain |-> "budget",
                     password |-> IF password = None
                                  THEN DefaultLaunchPassword
                                  ELSE password[1],
                     bucket_name |-> bucket,
                     instance_name |-> instance,
                     static_ip_name |-> StaticIpName(instance),
                     topic |-> TopicName(instance),
                     bucket_handle |-> None,
                     full_topic |-> None,
                     upload_url |-> None,
                     token |-> None,
                     startup_script |-> None,
                     shutdown_script |-> None]
    /\ calls' = <<>>
    /\ result' = NoResult
    /\ pc' = "launch_static_ip"
    /\ UNCHANGED <<drawn, clients, cloud, local>>

\* if static_ip is None: self.create_static_ip(...) else: self.static_ip = static_ip
LaunchStaticIp ==
    /\ pc = "launch_static_ip"
    /\ \/ /\ frame.static_ip = None
          /\ cloud' = CloudWithIp(cloud, frame.static_ip_name)
          /\ clients' = [clients EXCEPT
                 ![frame.client].static_ip = Some(NewAddress(cloud))]
          /\ calls' = Append(calls,
                 Call("create_static_ip", frame.static_ip_name, "ok"))
          /\ pc' = "launch_bucket"
          /\ UNCHANGED <<drawn, local, frame, result, ops>>
       \/ /\ frame.static_ip = None
          /\ Propagate("create_static_ip", Append(calls,
                 Call("create_static_ip", frame.static_ip_name, "raised")))
       \/ /\ frame.static_ip # None
          /\ clients' = [clients EXCEPT ![frame.client].static_ip = frame.static_ip]
          /\ pc' = "launch_bucket"
          /\ UNCHANGED <<drawn, cloud, local, frame, calls, result, ops>>

LaunchBucket ==
    /\ pc = "launch_bucket"
    /\ create_bucket_if_not_exists(frame.bucket_name, "fn_topic")

\* Variant: a failure of create_topic is caught and the create goes on.
FnCreateTopicFailureIgnored ==
    /\ pc = "fn_topic"
    /\ LET topic_path == TopicPath(Project, frame.topic)
       IN  \/ /\ cloud' = [cloud EXCEPT !.topics = @ \cup {topic_path}]
              /\ frame' = [frame EXCEPT !.full_topic = Some(topic_path)]
              /\ calls' = Append(calls, Call("create_topic", topic_path, "ok"))
              /\ pc' = "fn_upload_url"
              /\ UNCHANGED <<drawn, clients, local, result, ops>>
           \/ /\ frame' = [frame EXCEPT !.full_topic = Some(topic_path)]
              /\ calls' = Append(calls, Call("create_topic", topic_path, "raised"))
              /\ pc' = "fn_upload_url"
              /\ UNCHANGED <<drawn, clients, cloud, local, result, ops>>

\* BudgetML.create_cloud_function called by the user
CreateCloudFunctionBegin(c, instance_name, topic) ==
    /\ pc = "idle"
    /\ ops < MaxOps
    /\ ops' = ops + 1
    /\ frame' = [op |-> "create_cloud_function", client |-> c,
                 instance_name |-> instance_name,
                 topic |-> topic,
                 full_topic |-> None,
                 upload_url |-> None]
    /\ calls' = <<>>
    /\ result' = NoResult
    /\ pc' = "fn_topic"
    /\ UNCHANGED <<drawn, clients, cloud, local>>

\* function.create_cloud_function, first call: pubsub.create_topic
FnCreateTopic ==
    /\ pc = "fn_topic"
    /\ LET topic_path == TopicPath(Project, frame.topic)
       IN  \/ /\ cloud' = [cloud EXCEPT !.topics = @ \cup {topic_path}]
              /\ frame' = [frame EXCEPT !.full_topic = Some(topic_path)]
              /\ calls' = Append(calls, Call("create_topic", topic_path, "ok"))
              /\ pc' = "fn_upload_url"
              /\ UNCHANGED <<drawn, clients, local, result, ops>>
           \/ Propagate("create_topic",
                  Append(calls, Call("create_topic", topic_path, "raised")))

\* function.create_upload_url, first call: generateUploadUrl(...).execute()
FnGenerateUploadUrl ==
    /\ pc = "fn_upload_url"
    /\ \/ /\ frame' = [frame EXCEPT !.upload_url = Some(UploadUrl(Parent))]
          /\ calls' = Append(calls, Call("generate_upload_url", Parent, "ok"))
          /\ pc' = "fn_upload"
          /\ UNCHANGED <<drawn, clients, cloud, local, result, ops>>
       \/ Propagate("generate_upload_url",
              Append(calls, Call("generate_upload_url", Parent, "raised")))

\* function.create_upload_url, second call: requests.put(upload_url, ...).
\* requests.put returns the response whatever its status; the response is
\* only logged.  It raises only when no response arrives.
FnUploadArchive ==
    /\ pc = "fn_upload"
    /\ LET url == frame.upload_url[1]
       IN  \/ /\ calls' = Append(calls, Call("upload_archive", url, "ok"))
              /\ pc' = "fn_register"
              /\ UNCHANGED <<drawn, clients, cloud, local, frame, result, ops>>
           \/ /\ calls' = Append(calls, Call("upload_archive", url, "rejected"))
              /\ pc' = "fn_register"
              /\ UNCHANGED <<drawn, clients, cloud, local, frame, result, ops>>
           \/ Propagate("upload_archive",
                  Append(calls, Call("upload_archive", url, "raised")))

\* function.create_cloud_function, last call: functions().create(...).execute()
FnRegister ==
    /\ pc = "fn_register"
    /\ LET name == Parent \o "/functions/" \o FunctionName(frame.instance_name)
           config == [name |-> name,
                      instance |-> frame.instance_name,
                      sourceUploadUrl |-> frame.upload_url[1],
                      resource |-> frame.full_topic[1]]
       IN  \/ /\ cloud' = [cloud EXCEPT !.functions = @ \cup {config}]
              /\ calls' = Append(calls, Call("create_function", name, "ok"))
              /\ IF frame.op = "launch"
                 THEN pc' = "launch_job" /\ result' = result
                 ELSE /\ pc' = "idle"
                      /\ result' = Returned(FunctionName(frame.instance_name))
              /\ UNCHANGED <<drawn, clients, local, frame, ops>>
           \/ Propagate("create_function",
                  Append(calls, Call("create_function", name, "raised")))

\* function.delete_cloud_function called by the user
DeleteCloudFunctionOp(function_name) ==
    /\ pc = "idle"
    /\ ops < MaxOps
    /\ ops' = ops + 1
    /\ frame' = [op |-> "delete_cloud_function"]
    /\ pc' = "idle"
    /\ UNCHANGED <<drawn, clients, local>>
    /\ LET full_name == Parent \o "/functions/" \o function_name
       IN  \/ /\ cloud' = [cloud EXCEPT
                     !.functions = {f \in @ : f.name # full_name}]
              /\ calls' = <<Call("delete_function", full_name, "ok")>>
              /\ result' = Returned(DeleteResponse)
           \/ /\ calls' = <<Call("delete_function", full_name, "raised")>>
              /\ result' = Raised("delete_function")
              /\ UNCHANGED cloud

\* self.create_scheduler_job(project_id, topic, schedule, region)
LaunchSchedulerJob ==
    /\ pc = "launch_job"
    /\ \/ /\ cloud' = [cloud EXCEPT !.jobs = @ \cup
                 {[topic |-> frame.topic, schedule |-> Schedule]}]
          /\ calls' = Append(calls, Call("create_scheduler_job", frame.topic, "ok"))
          /\ pc' = "launch_startup"
          /\ UNCHANGED <<drawn, clients, local, frame, result, ops>>
       \/ Propagate("create_scheduler_job",
              Append(calls, Call("create_scheduler_job", frame.topic, "raised")))

\* create_scheduler_job called by the user: the job is created from the
\* arguments alone, and nothing is returned
CreateSchedulerJobOp(c, topic, schedule) ==
    /\ pc = "idle"
    /\ ops < MaxOps
    /\ ops' = ops + 1
    /\ frame' = [op |-> "create_scheduler_job", client |-> c]
    /\ pc' = "idle"
    /\ UNCHANGED <<drawn, clients, local>>
    /\ \/ /\ cloud' = [cloud EXCEPT !.jobs = @ \cup
                 {[topic |-> topic, schedule |-> schedule]}]
          /\ calls' = <<Call("create_scheduler_job", topic, "ok")>>
          /\ result' = Returned(None)
       \/ /\ calls' = <<Call("create_scheduler_job", topic, "raised")>>
          /\ result' = Raised("create_scheduler_job")
          /\ UNCHANGED cloud

\* Variant: the scripts are built without uploading the predictor.
LaunchStartUpWithoutUpload ==
    /\ pc = "launch_startup"
    /\ LET unique_id == clients[frame.client].unique_id
       IN  /\ drawn' = drawn + 1
           /\ frame' = [frame EXCEPT
                  !.startup_script = Some(create_start_up(unique_id,
                      PredictorEntrypoint, frame.bucket_name, Domain,
                      frame.subdomain, frame.username, frame.password,
                      Uuid(drawn))),
                  !.shutdown_script = Some(create_shut_down(frame.topic))]
           /\ pc' = "launch_render"
           /\ UNCHANGED <<clients, cloud, local, calls, result, ops>>

\* self.create_start_up(...): upload the predictor, build the startup script
\* (drawing the session token); then self.create_shut_down(topic).
LaunchStartUp ==
    /\ pc = "launch_startup"
    /\ LET unique_id == clients[frame.client].unique_id
           blob == [bucket |-> frame.bucket_name,
                    path |-> PredictorGcsPath(unique_id, PredictorEntrypoint)]
       IN  \/ /\ cloud' = [cloud EXCEPT !.blobs = @ \cup {blob}]
              /\ calls' = Append(calls, Call("upload_blob", blob, "ok"))
              /\ drawn' = drawn + 1
              /\ frame' = [frame EXCEPT
                     !.startup_script = Some(create_start_up(unique_id,
                         PredictorEntrypoint, frame.bucket_name, Domain,
                         frame.subdomain, frame.username, frame.password,
                         Uuid(drawn))),
                     !.shutdown_script = Some(create_shut_down(frame.topic))]
              /\ pc' = "launch_render"
              /\ UNCHANGED <<clients, local, result, ops>>
           \/ Propagate("upload_blob",
                  Append(calls, Call("upload_blob", blob, "raised")))

\* base64.b64encode(content.encode()).decode() of the four payloads of launch,
\* worked out once for each requirements argument and file
EncodedRequirements ==
    [requirements \in RequirementsArgs |->
        [raw \in RequirementsFiles |->
            Base64Text(RequirementsContent(requirements, raw))]]
EncodedDockerTemplate == Base64Text(get_docker_file_contents(TemplateDockerfile))
EncodedDockerCompose == Base64Text(get_docker_compose_contents(TemplateCompose))
EncodedNginxConf ==
    Base64Text(get_nginx_conf_contents(Domain, "budget", TemplateNginxConf))

\* The four payloads are read from local files (a missing file raises) or,
\* for a requirements list, joined; then each is base64-encoded.
LaunchRender ==
    /\ pc = "launch_render"
    /\ \/ \E raw \in RequirementsFiles :
              /\ frame' = [frame EXCEPT
                     !.requirements_raw =
                         IF frame.requirements.kind = "path" THEN Some(raw)
                         ELSE None,
                     !.requirements_rendered =
                         Some(RequirementsContent(frame.requirements, raw)),
                     !.requirements_content =
                         Some(EncodedRequirements[frame.requirements][raw]),
                     !.docker_template_content = Some(EncodedDockerTemplate),
                     !.docker_compose_content = Some(EncodedDockerCompose),
                     !.nginx_conf_content = Some(EncodedNginxConf)]
              /\ pc' = "launch_instance"
              /\ UNCHANGED <<drawn, clients, cloud, local, calls, result, ops>>
       \/ Propagate("render", calls)

\* create_instance(...), then return username, password
LaunchCreateInstance ==
    /\ pc = "launch_instance"
    /\ LET args == [name |-> frame.instance_name,
                    static_ip |-> clients[frame.client].static_ip,
                    startup_script |-> frame.startup_script[1],
                    shutdown_script |-> frame.shutdown_script[1],
                    requirements_content |-> frame.requirements_content[1],
                    docker_template_content |-> frame.docker_template_content[1],
                    docker_compose_content |-> frame.docker_compose_content[1],
                    nginx_conf_content |-> frame.nginx_conf_content[1]]
       IN  \/ /\ cloud' = [cloud EXCEPT !.instances = @ \cup
                     {[name |-> args.name, static_ip |-> args.static_ip]}]
              /\ calls' = Append(calls, Call("create_instance", args, "ok"))
              /\ result' = Returned(<<frame.username, frame.password>>)
              /\ pc' = "idle"
              /\ UNCHANGED <<drawn, clients, local, frame, ops>>
           \/ Propagate("create_instance",
                  Append(calls, Call("create_instance", args, "raised")))

(***************************************************************************)
(* BudgetML.launch_local                                                   *)
(***************************************************************************)
TmpDir == "tmp"
Tag == "budget_local"
CredentialsPath == "/app/sa.json"
GoogleApplicationCredentials == "/home/user/sa.json"

LocalBegin(c, bucket_name, password, requirements) ==
    /\ pc = "idle"
    /\ ops < MaxOps
    /\ ops' = ops + 1
    /\ LET unique_id == clients[c].unique_id
           bucket == IF bucket_name = None THEN DefaultBucketName(unique_id)
                     ELSE bucket_name[1]
       IN  frame' = [op |-> "launch_local", client |-> c,
                     static_ip |-> None,
                     bucket_arg |-> bucket_name,
                     instance_arg |-> None,
                     password_arg |-> password,
                     requirements |-> requirements,
                     requirements_raw |-> None,
                     requirements_rendered |-> None,
                     requirements_content |-> None,
                     docker_template_content |-> None,
                     docker_compose_content |-> None,
                     nginx_conf_content |-> None,
                     makedirs |-> None,
                     start_drawn |-> drawn,
                     username |-> "budget",
                     subdomain |-> None,
                     password |-> IF password = None
                                  THEN DefaultLaunchLocalPassword
                                  ELSE password[1],
                     bucket_name |-> bucket,
                     instance_name |-> None,
                     static_ip_name |-> None,
                     topic |-> None,
                     bucket_handle |-> None,
                     full_topic |-> None,
                     upload_url |-> None,
                     token |-> None,
                     startup_script |-> None,
                     shutdown_script |-> None]
    /\ calls' = <<>>
    /\ result' = NoResult
    /\ pc' = "local_bucket"
    /\ UNCHANGED <<drawn, clients, cloud, local>>

LocalBucket ==
    /\ pc = "local_bucket"
    /\ create_bucket_if_not_exists(frame.bucket_name, "local_render")

\* Variant: a scratch directory that already exists aborts the operation.
LocalRenderExistingDirAborts ==
    /\ pc = "local_render"
    /\ \/ /\ local.tmp_dir
          /\ frame' = [frame EXCEPT !.makedirs = Some("exists")]
          /\ pc' = "idle"
          /\ result' = Raised("render")
          /\ UNCHANGED <<drawn, clients, cloud, local, calls, ops>>
       \/ \E raw \in RequirementsFiles :
              LET requirements_content ==
                      RequirementsContent(frame.requirements, raw)
                  docker_template_content ==
                      get_docker_file_contents(TemplateDockerfile)
              IN  /\ frame' = [frame EXCEPT
                         !.requirements_raw =
                             IF frame.requirements.kind = "path" THEN Some(raw)
                             ELSE None,
                         !.requirements_rendered = Some(requirements_content),
                         !.requirements_content = Some(requirements_content),
                         !.docker_template_content =
                             Some(docker_template_content),
                         !.makedirs = IF local.tmp_dir THEN Some("exists")
                                      ELSE Some("created")]
                  /\ local' = [local EXCEPT
                         !.tmp_dir = TRUE,
                         !.files = WriteText(
                             WriteText(@, TmpDir \o "/custom_requirements.txt",
                                       requirements_content),
                             TmpDir \o "/template.Dockerfile",
                             docker_template_content)]
                  /\ pc' = "local_build"
                  /\ UNCHANGED <<drawn, clients, cloud, calls, result, ops>>
       \/ Propagate("render", calls)

\* Read the Dockerfile template and the requirements (a missing file raises),
\* make the scratch directory (an OSError, as when it exists, is ignored) and
\* write the two files into it.
LocalRender ==
    /\ pc = "local_render"
    /\ \/ \E raw \in RequirementsFiles :
              LET requirements_content ==
                      RequirementsContent(frame.requirements, raw)
                  docker_template_content ==
                      get_docker_file_contents(TemplateDockerfile)
              IN  /\ frame' = [frame EXCEPT
                         !.requirements_raw =
                             IF frame.requirements.kind = "path" THEN Some(raw)
                             ELSE None,
                         !.requirements_rendered = Some(requirements_content),
                         !.requirements_content = Some(requirements_content),
                         !.docker_template_content =
                             Some(docker_template_content),
                         !.makedirs = IF local.tmp_dir THEN Some("exists")
                                      ELSE Some("created")]
                  /\ local' = [local EXCEPT
                         !.tmp_dir = TRUE,
                         !.files = WriteText(
                             WriteText(@, TmpDir \o "/custom_requirements.txt",
                                       requirements_content),
                             TmpDir \o "/template.Dockerfile",
                             docker_template_content)]
                  /\ pc' = "local_build"
                  /\ UNCHANGED <<drawn, clients, cloud, calls, result, ops>>
       \/ Propagate("render", calls)

\* client.images.build(path=tmp_dir, dockerfile='template.Dockerfile', tag=tag)
LocalBuild ==
    /\ pc = "local_build"
    /\ \/ /\ local' = [local EXCEPT !.images = @ \cup {Tag}]
          /\ calls' = Append(calls, Call("build_image", Tag, "ok"))
          /\ pc' = "local_upload"
          /\ UNCHANGED <<drawn, clients, cloud, frame, result, ops>>
       \/ Propagate("build_image",
              Append(calls, Call("build_image", Tag, "raised")))

\* upload_blob(bucket_name, file_name, predictor_gcs_path); token = str(uuid4())
LocalUpload ==
    /\ pc = "local_upload"
    /\ LET unique_id == clients[frame.client].unique_id
           blob == [bucket |-> frame.bucket_name,
                    path |-> PredictorGcsPath(unique_id, PredictorEntrypoint)]
       IN  \/ /\ cloud' = [cloud EXCEPT !.blobs = @ \cup {blob}]
              /\ calls' = Append(calls, Call("upload_blob", blob, "ok"))
              /\ drawn' = drawn + 1
              /\ frame' = [frame EXCEPT !.token = Some(Uuid(drawn))]
              /\ pc' = "local_run"
              /\ UNCHANGED <<clients, local, result, ops>>
           \/ Propagate("upload_blob",
                  Append(calls, Call("upload_blob", blob, "raised")))

\* client.containers.run(tag, ports, environment, ...)
LocalRun ==
    /\ pc = "local_run"
    /\ LET unique_id == clients[frame.client].unique_id
           predictor_path == "gs://" \o frame.bucket_name \o "/"
               \o PredictorGcsPath(unique_id, PredictorEntrypoint)
           args == [tag |-> Tag,
                    ports |-> <<"80/tcp", "8000">>,
                    environment |->
                        <<"BUDGET_PREDICTOR_PATH=" \o predictor_path,
                          "BUDGET_PREDICTOR_ENTRYPOINT=" \o PredictorEntrypoint,
                          "BUDGET_USERNAME=" \o frame.username,
                          "BUDGET_PWD=" \o frame.password,
                          "GOOGLE_APPLICATION_CREDENTIALS=" \o CredentialsPath,
                          "BUDGET_TOKEN=" \o frame.token[1]>>,
                    volumes |-> <<GoogleApplicationCredentials,
                                  CredentialsPath, "ro">>]
       IN  \/ /\ local' = [local EXCEPT !.containers = @ \cup {Tag}]
              /\ calls' = Append(calls, Call("run_container", args, "ok"))
              /\ pc' = "local_logs"
              /\ UNCHANGED <<drawn, clients, cloud, frame, result, ops>>
           \/ Propagate("run_container",
                  Append(calls, Call("run_container", args, "raised")))

\* logging.debug(container.logs()): the started container's logs are fetched
\* from the container runtime; then return username, password
LocalLogs ==
    /\ pc = "local_logs"
    /\ \/ /\ calls' = Append(calls, Call("container_logs", Tag, "ok"))
          /\ result' = Returned(<<frame.username, frame.password>>)
          /\ pc' = "idle"
          /\ UNCHANGED <<drawn, clients, cloud, local, frame, ops>>
       \/ Propagate("container_logs",
              Append(calls, Call("container_logs", Tag, "raised")))

(***************************************************************************)
(* The specification.                                                      *)
(***************************************************************************)
Next ==
    \/ \E c \in Clients : CreateStaticIpOp(c, "ip-manual")
    \/ \E c \in Clients, a \in cloud.ips, response \in ReleaseResponses :
           ReleaseStaticIpOp(c, a.address, response)
    \/ \E c \in Clients : CreateStartUpOp(c, StandaloneBucket)
    \/ \E c \in Clients : CreateShutDownOp(c, StandaloneTopic)
    \/ \E c \in Clients : GetDockerFileContentsOp(c)
    \/ \E c \in Clients : \E p \in RequirementsPathArgs, raw \in RequirementsFiles :
           GetRequirementsFileContentsOp(c, p, raw)
    \/ \E c \in Clients : GetDockerComposeContentsOp(c)
    \/ \E c \in Clients : GetNginxConfContentsOp(c)
    \/ \E c \in Clients : \E a \in LaunchArgs(c) :
           LaunchBegin(c, a.static_ip, a.names.bucket_name,
                       a.names.instance_name, a.password, a.requirements)
    \/ CreateCloudFunctionBegin("c1", StandaloneInstance, StandaloneTopic)
    \/ \E f \in cloud.functions : DeleteCloudFunctionOp(FunctionName(f.instance))
    \/ \E c \in Clients : CreateSchedulerJobOp(c, StandaloneTopic, Schedule)
    \/ LaunchStaticIp
    \/ LaunchBucket
    \/ FnCreateTopic
    \/ FnGenerateUploadUrl
    \/ FnUploadArchive
    \/ FnRegister
    \/ LaunchSchedulerJob
    \/ LaunchStartUp
    \/ LaunchRender
    \/ LaunchCreateInstance
    \/ \E c \in Clients : \E a \in LocalArgs(c) :
           LocalBegin(c, a.bucket_name, a.password, a.requirements)
    \/ LocalBucket
    \/ LocalRender
    \/ LocalBuild
    \/ LocalUpload
    \/ LocalRun
    \/ LocalLogs

Spec == Init /\ [][Next]_vars

(***************************************************************************)
(* Vocabulary of the properties.                                           *)
(***************************************************************************)
InLaunch == frame.op = "launch"
Idx == 1..Len(calls)
Succeeded(call) == call.res \in {"ok", "created", "conflict"}

\* call number i is an op call that succeeded
OkAt(i, op) == calls[i].op = op /\ Succeeded(calls[i])
OkBefore(i, op) == \E j \in 1..(i - 1) : OkAt(j, op)

\* the i-th character of a text
Char(str, i) == SubSeq(str, i, i)

\* unique_id with every "_" replaced by "-", stated character by character
IsHyphenated(str, unique_id) ==
    /\ Len(str) = Len(unique_id)
    /\ \A i \in 1..Len(unique_id) :
           Char(str, i) = IF Char(unique_id, i) = "_" THEN "-"
                          ELSE Char(unique_id, i)

\* the instance name launch must use: the caller's, or the derived one
IsExpectedInstanceName(name) ==
    IF frame.instance_arg # None THEN name = frame.instance_arg[1]
    ELSE /\ SubSeq(name, 1, 16) = "budget-instance-"
         /\ IsHyphenated(SubSeq(name, 17, Len(name)),
                         clients[frame.client].unique_id)

IsExpectedBucketName(name) ==
    IF frame.bucket_arg # None THEN name = frame.bucket_arg[1]
    ELSE name = "budget_bucket_" \o clients[frame.client].unique_id

\* the resource a successful create call made is among the cloud's resources
Allocated(call) ==
    CASE call.op = "create_static_ip" -> \E a \in cloud.ips : a.name = call.args
      [] call.op = "create_bucket" -> call.args \in cloud.buckets
      [] call.op = "create_topic" -> call.args \in cloud.topics
      [] call.op = "create_function" -> \E f \in cloud.functions : f.name = call.args
      [] call.op = "create_scheduler_job" ->
             \E j \in cloud.jobs : j.topic = call.args
      [] call.op = "upload_blob" -> call.args \in cloud.blobs
      [] call.op = "create_instance" ->
             \E v \in cloud.instances : v.name = call.args.name
      [] OTHER -> TRUE

CreateOps == {"create_static_ip", "create_bucket", "create_topic",
              "generate_upload_url", "upload_archive", "create_function",
              "create_scheduler_job", "upload_blob", "create_instance"}

(***************************************************************************)
(* Properties.                                                             *)
(***************************************************************************)

\* C1: in launch, the function registration and the scheduled-job creation
\* are issued only after a create-topic call that succeeded; a create-topic
\* call that raised is the last call launch issues.
TopicBeforeFunctionAndJob ==
    InLaunch =>
        \A i \in Idx :
            /\ calls[i].op \in {"create_function", "create_scheduler_job"}
                   => OkBefore(i, "create_topic")
            /\ (calls[i].op = "create_topic" /\ calls[i].res = "raised")
                   => /\ i = Len(calls)
                      /\ result.status = "raised"

C1_Witness ==
    /\ InLaunch
    /\ \E i \in Idx : OkAt(i, "create_scheduler_job")

\* C2: in launch, create-instance is the last call, issued only after the
\* static IP was acquired (or supplied), and the bucket, the topic, the
\* function, the scheduled job and the predictor upload all succeeded.
InstanceCreatedLast ==
    InLaunch =>
        \A i \in Idx :
            calls[i].op = "create_instance" =>
                /\ i = Len(calls)
                /\ frame.static_ip # None \/ OkBefore(i, "create_static_ip")
                /\ OkBefore(i, "create_bucket")
                /\ OkBefore(i, "create_topic")
                /\ OkBefore(i, "create_function")
                /\ OkBefore(i, "create_scheduler_job")
                /\ OkBefore(i, "upload_blob")

C2_Witness ==
    /\ InLaunch
    /\ result.status = "returned"
    /\ \E i \in Idx : OkAt(i, "create_instance")

\* C3: when a step of launch raises, launch ends with that error: the call
\* that raised is the last one issued, every call launch issued is a create
\* or upload call (no delete, no release), and every resource the earlier
\* calls created is still allocated.
FailureLeavesResources ==
    InLaunch =>
        /\ \A i \in Idx : calls[i].res = "raised" =>
               /\ i = Len(calls)
               /\ pc = "idle"
               /\ result.status = "raised"
        /\ result.status = "raised" =>
               /\ pc = "idle"
               /\ \A i \in Idx :
                      /\ calls[i].op \in CreateOps
                      /\ Succeeded(calls[i]) => Allocated(calls[i])

C3_Witness ==
    /\ InLaunch
    /\ result.status = "raised"
    /\ result.at = "create_instance"
    /\ \E i \in Idx : OkAt(i, "create_static_ip")

\* C4: create_bucket_if_not_exists on a name that exists is answered with a
\* conflict, and then it does not raise, returns the handle of that name and
\* leaves the set of buckets unchanged; on a name that does not exist it
\* creates that one bucket and returns the same handle.
BucketStep == pc \in {"launch_bucket", "local_bucket"}
BucketAnswer == calls'[Len(calls')].res

BucketCreateIdempotent ==
    [][BucketStep =>
         /\ BucketAnswer = "conflict" =>
                /\ frame.bucket_name \in cloud.buckets
                /\ cloud'.buckets = cloud.buckets
                /\ pc' # "idle" /\ result' = result
                /\ frame'.bucket_handle = Some(frame.bucket_name)
         /\ BucketAnswer = "created" =>
                /\ frame.bucket_name \notin cloud.buckets
                /\ cloud'.buckets = cloud.buckets \cup {frame.bucket_name}
                /\ pc' # "idle" /\ result' = result
                /\ frame'.bucket_handle = Some(frame.bucket_name)
         /\ frame.bucket_name \in cloud.buckets => BucketAnswer # "created"
      ]_vars

C4_Witness ==
    /\ ops = 2
    /\ \E i \in Idx : calls[i].op = "create_bucket" /\ calls[i].res = "conflict"
    /\ frame.bucket_handle = Some(frame.bucket_name)
    /\ result.status = "returned"

\* C5 (as claimed): launch issues a create-static-IP call only when the caller
\* supplied no address, neither to the constructor nor to launch, and the
\* instance is created with the caller's address when there is one.
SuppliedStaticIp ==
    IF frame.static_ip # None THEN frame.static_ip
    ELSE clients[frame.client].static_ip_arg

StaticIpOnlyWhenNotSupplied ==
    InLaunch =>
        \A i \in Idx :
            /\ calls[i].op = "create_static_ip" => SuppliedStaticIp = None
            /\ (calls[i].op = "create_instance" /\ SuppliedStaticIp # None)
                   => calls[i].args.static_ip = SuppliedStaticIp

\* C6 (as claimed): the function registration is issued only when the topic
\* creation, the upload-URL request and the archive upload all succeeded.
FunctionCreateAllOrAbort ==
    InLaunch =>
        \A i \in Idx :
            calls[i].op = "create_function" =>
                /\ OkBefore(i, "create_topic")
                /\ OkBefore(i, "generate_upload_url")
                /\ OkBefore(i, "upload_archive")

\* C7 (as claimed): the password a launch or launch_local returns when the
\* caller passed none is a credential drawn during that invocation.
FreshPasswordPerCall ==
    (/\ frame.op \in {"launch", "launch_local"}
     /\ result.status = "returned"
     /\ frame.password_arg = None)
        => \E n \in frame.start_drawn..(drawn - 1) : result.value[2] = Uuid(n)

\* C8 (as claimed): two clients constructed without a unique_id do not share
\* one generated id.
UniqueIdPerClient ==
    \A c, d \in Clients :
        (/\ c # d
         /\ clients[c].unique_id_arg = None
         /\ clients[d].unique_id_arg = None)
            => clients[c].unique_id # clients[d].unique_id

\* C9: every name launch passes to a create call is the caller's name, or
\* else is derived from unique_id alone: bucket 'budget_bucket_' + unique_id,
\* instance 'budget-instance-' + unique_id with '_' as '-', static IP
\* 'ip-' + instance, topic 'topic-' + instance, function 'function-' +
\* instance.
NamesDerivedFromUniqueId ==
    InLaunch =>
        /\ IsExpectedInstanceName(frame.instance_name)
        /\ \A i \in Idx :
            LET op == calls[i].op
                args == calls[i].args
                inst == frame.instance_name
            IN  /\ op = "create_static_ip" => args = "ip-" \o inst
                /\ op = "create_bucket" => IsExpectedBucketName(args)
                /\ op = "create_topic" =>
                       args = "projects/proj/topics/topic-" \o inst
                /\ op = "create_function" =>
                       args = "projects/proj/locations/us-central1/functions/function-"
                                  \o inst
                /\ op = "create_scheduler_job" => args = "topic-" \o inst
                /\ op = "upload_blob" => IsExpectedBucketName(args.bucket)
                /\ op = "create_instance" => args.name = inst

C9_Witness ==
    /\ InLaunch
    /\ result.status = "returned"
    /\ clients[frame.client].unique_id = "my_id_1"
    /\ frame.instance_arg = None
    /\ frame.instance_name = "budget-instance-my-id-1"
    /\ \E i \in Idx : calls[i].op = "create_static_ip"

\* C10 (as claimed): for a launch with all defaults, the startup script passed
\* to create-instance contains the derived instance name and the topic name.
AllDefaults ==
    /\ InLaunch
    /\ frame.static_ip = None
    /\ frame.bucket_arg = None
    /\ frame.instance_arg = None
    /\ frame.password_arg = None

StartupScriptNamesInstanceAndTopic ==
    AllDefaults =>
        \A i \in Idx :
            calls[i].op = "create_instance" =>
                /\ IsExpectedInstanceName(frame.instance_name)
                /\ Contains(calls[i].args.startup_script, frame.instance_name)
                /\ Contains(calls[i].args.startup_script,
                            "topic-" \o frame.instance_name)

\* C10 (amended): for a launch with all defaults, the shutdown script passed
\* to create-instance contains the derived instance name and the topic name
\* 'topic-' + instance name.
ShutdownScriptNamesInstanceAndTopic ==
    AllDefaults =>
        \A i \in Idx :
            calls[i].op = "create_instance" =>
                /\ IsExpectedInstanceName(frame.instance_name)
                /\ Contains(calls[i].args.shutdown_script, frame.instance_name)
                /\ Contains(calls[i].args.shutdown_script,
                            "topic-" \o frame.instance_name)

C10_Witness ==
    /\ AllDefaults
    /\ clients[frame.client].unique_id = "my_id_1"
    /\ \E i \in Idx : OkAt(i, "create_instance")

(***************************************************************************)
(* C11: what the script and file builders do to the remote resources       *)
(***************************************************************************)
BuilderOps == {"create_start_up", "create_shut_down",
               "get_docker_file_contents", "get_requirements_file_contents",
               "get_docker_compose_contents", "get_nginx_conf_contents"}

\* this step is a user's call of one of the named builders
BuilderCalled(names) ==
    /\ pc = "idle"
    /\ ops' = ops + 1
    /\ frame'.op \in names

NoCallNoEffect == calls' = <<>> /\ cloud' = cloud

\* C11 (as claimed): every builder, create_start_up included, issues no
\* network call and leaves the state of every remote resource unchanged.
BuildersArePure ==
    [][BuilderCalled(BuilderOps) => NoCallNoEffect]_vars

\* C11 (amended): create_shut_down and the four file renderers issue no
\* network call and leave every remote resource unchanged; create_start_up
\* issues exactly one call, the upload of the predictor to
\* 'predictors/<unique_id>/<entrypoint>.py', and changes nothing remote but
\* the bucket contents, which gain that blob when the upload succeeds.
BuildersPureExceptStartUpUpload ==
    [][/\ BuilderCalled(BuilderOps \ {"create_start_up"}) => NoCallNoEffect
       /\ BuilderCalled({"create_start_up"}) =>
              /\ Len(calls') = 1
              /\ calls'[1].op = "upload_blob"
              /\ calls'[1].args.path =
                     PredictorGcsPath(clients[frame'.client].unique_id,
                                      PredictorEntrypoint)
              /\ cloud' = IF Succeeded(calls'[1])
                          THEN [cloud EXCEPT !.blobs = @ \cup {calls'[1].args}]
                          ELSE cloud]_vars

C11_Witness ==
    /\ pc = "idle"
    /\ frame.op = "create_start_up"
    /\ result.status = "returned"
    /\ calls[1].args \in cloud.blobs
    /\ cloud.buckets = {}

(***************************************************************************)
(* C12: the three modes of requirements rendering                          *)
(***************************************************************************)
\* the pieces of str between newlines, as str.split('\n') gives them
RECURSIVE SplitLines(_)
SplitLines(str) ==
    IF \E i \in 1..Len(str) : Char(str, i) = "\n"
    THEN LET i == CHOOSE k \in 1..Len(str) :
                      /\ Char(str, k) = "\n"
                      /\ \A j \in 1..(k - 1) : Char(str, j) # "\n"
         IN  <<SubSeq(str, 1, i - 1)>> \o SplitLines(SubSeq(str, i + 1, Len(str)))
    ELSE <<str>>

\* a launch or launch_local has rendered its requirements
Rendered ==
    /\ frame.op \in {"launch", "launch_local"}
    /\ frame.requirements_rendered # None

\* in launch_local the rendered text is what the scratch file holds
ScratchFileHoldsRendered ==
    (frame.op = "launch_local" /\ pc = "local_build") =>
        [path |-> TmpDir \o "/custom_requirements.txt",
         text |-> frame.requirements_rendered[1]] \in local.files

AbsentAndListModes ==
    /\ frame.requirements.kind = "none" => frame.requirements_rendered[1] = ""
    /\ frame.requirements.kind = "list" =>
           SplitLines(frame.requirements_rendered[1]) = frame.requirements.items
    /\ ScratchFileHoldsRendered

\* C12 (as claimed): absent requirements render as the empty string, a list as
\* its items in order joined by single newlines with no trailing newline, and a
\* file path as the file's contents verbatim.
RequirementsThreeModesVerbatim ==
    Rendered =>
        /\ AbsentAndListModes
        /\ frame.requirements.kind = "path" =>
               frame.requirements_rendered[1] = frame.requirements_raw[1]

\* C12 (amended): absent requirements render as the empty string, a list as
\* its items in order joined by single newlines with no trailing newline, and a
\* file path as the file's contents read as text: every line ending '\r\n' or
\* '\r' of the file becomes '\n', so the text holds no '\r' and is the file's
\* contents verbatim exactly when the file holds none.
RequirementsThreeModesTextRead ==
    Rendered =>
        /\ AbsentAndListModes
        /\ frame.requirements.kind = "path" =>
               LET text == frame.requirements_rendered[1]
                   raw == frame.requirements_raw[1]
               IN  /\ ~Contains(text, "\r")
                   /\ SplitLines(text) =
                          SplitLines(ReplaceAll(ReplaceAll(raw, "\r\n", "\n"),
                                                "\r", "\n"))
                   /\ ~Contains(raw, "\r") => text = raw

C12_Witness ==
    /\ frame.op = "launch_local"
    /\ pc = "local_build"
    /\ frame.requirements.kind = "path"
    /\ Contains(frame.requirements_raw[1], "\r")
    /\ \E f \in local.files : f.text = "numpy==1.19.0\nfastapi"

(***************************************************************************)
(* C13: the order of the steps of launch_local                             *)
(***************************************************************************)
InLocal == frame.op = "launch_local"

ScratchFiles == {TmpDir \o "/custom_requirements.txt",
                 TmpDir \o "/template.Dockerfile"}

\* ensure-bucket, render, build, upload, run: each step's call is issued only
\* after the steps before it are done
LocalStepsInOrder ==
    \A i \in Idx :
        /\ calls[i].op = "build_image" =>
               /\ OkBefore(i, "create_bucket")
               /\ frame.makedirs # None
               /\ \A path \in ScratchFiles : \E f \in local.files : f.path = path
        /\ calls[i].op = "upload_blob" => OkBefore(i, "build_image")
        /\ calls[i].op = "run_container" =>
               /\ OkBefore(i, "build_image")
               /\ OkAt(i - 1, "upload_blob")

\* BUDGET_PREDICTOR_PATH names the bucket and path the artifact went to
PredictorPathNamesUpload ==
    \A i \in Idx :
        calls[i].op = "run_container" =>
            LET blob == calls[i - 1].args
            IN  /\ blob.bucket = frame.bucket_name
                /\ blob.path = "predictors/" \o clients[frame.client].unique_id
                                   \o "/" \o PredictorEntrypoint \o ".py"
                /\ blob \in cloud.blobs
                /\ calls[i].args.environment[1] =
                       "BUDGET_PREDICTOR_PATH=gs://" \o blob.bucket \o "/"
                           \o blob.path

\* a scratch directory that is already there is not what stops the operation
ExistingScratchDirDoesNotAbort ==
    frame.makedirs = Some("exists") => pc # "idle" \/ result # Raised("render")

\* C13 (as claimed): launch_local runs ensure-bucket, render, build, upload,
\* run in that order; the container-run call comes after the completed build
\* and upload, is the last external call, carries the uploaded artifact's
\* bucket and path in BUDGET_PREDICTOR_PATH, and a scratch directory that
\* already exists does not abort.
LocalRunIsLastCall ==
    InLocal =>
        /\ LocalStepsInOrder
        /\ PredictorPathNamesUpload
        /\ ExistingScratchDirDoesNotAbort
        /\ \A i \in Idx : calls[i].op = "run_container" => i = Len(calls)

\* C13 (amended): as claimed, except that the container-run call is not the
\* last external call: once it has succeeded, one call that reads the started
\* container's logs follows, and nothing else.
LocalRunThenLogs ==
    InLocal =>
        /\ LocalStepsInOrder
        /\ PredictorPathNamesUpload
        /\ ExistingScratchDirDoesNotAbort
        /\ \A i \in Idx :
               calls[i].op = "run_container" =>
                   /\ i >= Len(calls) - 1
                   /\ i < Len(calls) =>
                          OkAt(i, "run_container")
                              /\ calls[i + 1].op = "container_logs"
                   /\ (pc = "idle" /\ result.status = "returned") =>
                          OkAt(i + 1, "container_logs")

C13_Witness ==
    /\ InLocal
    /\ frame.makedirs = Some("exists")
    /\ pc = "idle"
    /\ result.status = "returned"
    /\ OkAt(Len(calls) - 1, "run_container")

====
